---- MODULE Spec2Model ----
(***************************************************************************)
(* A model of aiowatttime's client: the request engine                     *)
(* (Client._async_request), the authenticator (Client.async_authenticate), *)
(* the class-method entry points, the emissions endpoint group and the     *)
(* error classifier (errors.raise_error).                                  *)
(*                                                                         *)
(* Each coroutine is a frame on a per-task call stack; a frame's pc names  *)
(* the source line it will run next.  The code between two awaits runs     *)
(* without interruption in asyncio, so one action of the model runs a task *)
(* from the point where it resumes to its next suspension point (the HTTP  *)
(* call, the retry delay, the close of an ad hoc session) or to the end of *)
(* the call.  Run does that by iterating Step, which executes one          *)
(* statement group of the frame on top.                                    *)
(***************************************************************************)
EXTENDS Integers, Sequences, FiniteSets, TLC

VARIABLES
    request_retries,  \* Client._request_retries
    callerSession,    \* Client._session: "none", "open" or "closed"
    token,            \* Client._token: None or a token string
    creds,            \* Client._username and Client._password are set
    phase,            \* "new": no client returned yet; "ready": async_login returned one
    stack,            \* per task: the coroutine frames of its call, the running one last
    result,           \* per task: the outcome of its last call
    trace,            \* per task: what its current (or last) call did, in order
    adhocOpen,        \* number of ClientSessions the engine created and has not closed
    calls,            \* number of calls started so far
    op,               \* per task: the outermost coroutine of its current (or last) call
    overlap,          \* whether calls of different tasks may overlap on the client
    lastStore         \* history: the task and the token of the latest write of line 231

vars == <<request_retries, callerSession, token, creds, phase, stack, result,
          trace, adhocOpen, calls, op, overlap, lastStore>>

(***************************************************************************)
(* Bounds of the model.                                                    *)
(***************************************************************************)
MaxRetries == 3
MaxCalls == 3
MaxConcRetries == 2

\* The asyncio tasks that call the client.  Driven sequentially, the client
\* is called by task 1 alone.
Tasks == {1, 2}

\* Python's None.
None == "None"

\* Values the login endpoint hands out as tokens (tests/conftest.py, tests/test_client.py).
Tokens == {"abcd1234", "efgh5678"}

\* The endpoints the request engine is called with.
LoginEndpoint == "login"
NonLoginEndpoints == {"index", "forecast", "data", "ba-from-loc", "password", "register"}

\* A start or end time handed to an emissions method.
Times == {None, "dt"}

(***************************************************************************)
(* Values: JSON bodies are records (Python dicts), messages are sequences  *)
(* of words, so that "phrase in message" is a real containment test.       *)
(***************************************************************************)
\* The dict {} that data starts as (client.py line 164).
EmptyDict == <<>>

\* What a coroutine that returns None, or the client object, hands back.
NoneVal == [py |-> "None"]
ClientVal == [py |-> "Client"]

\* Parsed bodies of successful non-login responses.
Payloads == {[ba |-> "PSCO"], [ok |-> "User created"]}

\* Parsed bodies of successful login responses: a token, or no token field.
LoginBodies == {[token |-> tk] : tk \in Tokens} \cup {[detail |-> "ok"]}

\* Parsed bodies of responses whose HTTP status is a failure.
MsgTaken == <<"That", "username", "is", "taken">>
MsgScope == <<"Invalid", "scope">>
MsgOther == <<"Some", "other", "problem">>
MsgNoCoverage == <<"No", "coverage", "available">>
FailBodies ==
    { [message |-> MsgTaken],
      [message |-> <<"Error:">> \o MsgScope],
      [error |-> MsgOther],
      [message |-> MsgNoCoverage],
      [message |-> MsgScope \o MsgTaken],
      [message |-> MsgOther, error |-> MsgTaken],
      [error |-> MsgScope],
      [status |-> "failed"] }

\* An exception: its class and the words of its text.
Exc(type, text) == [type |-> type, text |-> text]
NoExc == Exc(None, <<>>)
InvalidCredentials == Exc("InvalidCredentialsError", <<"Invalid credentials">>)

\* The exception classes of the package (errors.py) and the ones that are not.
WattTimeErrors ==
    {"InvalidCredentialsError", "InvalidScopeError", "RequestError", "UsernameTakenError"}

\* A response of the server to one HTTP call.
Resp(kind, body) == [kind |-> kind, body |-> body]
NoResp == Resp(None, EmptyDict)

(***************************************************************************)
(* errors.py                                                               *)
(***************************************************************************)
ERROR_MESSAGE_TO_EXCEPTION_MAP ==
    (MsgScope :> "InvalidScopeError") @@ (MsgTaken :> "UsernameTakenError")

\* Python's "k in msg" on strings: k occurs in msg as a contiguous run.
Contains(msg, k) ==
    \E i \in 1..(Len(msg) - Len(k) + 1) : SubSeq(msg, i, i + Len(k) - 1) = k

\* raise_error that looks the message up by equality instead of containment.
raise_error_ExactMatch(endpoint, data, err) ==
    IF err = "ContentTypeError"
    THEN InvalidCredentials
    ELSE IF "message" \notin DOMAIN data /\ "error" \notin DOMAIN data
    THEN Exc("UnboundLocalError", <<"msg">>)
    ELSE LET msg == IF "message" \in DOMAIN data THEN data.message ELSE data.error
             exception ==
                 IF msg \in DOMAIN ERROR_MESSAGE_TO_EXCEPTION_MAP
                 THEN ERROR_MESSAGE_TO_EXCEPTION_MAP[msg]
                 ELSE "RequestError"
         IN  Exc(exception, <<"Error while requesting /", endpoint, ": ">> \o msg)

\* raise_error (imported by client.py as raise_client_error): the exception
\* it raises for a parsed body.  With neither field msg is unbound; with no
\* match or several the unpacking [exception] = [...] raises ValueError, which
\* is caught and gives RequestError.
raise_error(endpoint, data, err) ==
    IF err = "ContentTypeError"
    THEN InvalidCredentials
    ELSE IF "message" \notin DOMAIN data /\ "error" \notin DOMAIN data
    THEN Exc("UnboundLocalError", <<"msg">>)
    ELSE LET msg == IF "message" \in DOMAIN data THEN data.message ELSE data.error
             found == {k \in DOMAIN ERROR_MESSAGE_TO_EXCEPTION_MAP : Contains(msg, k)}
             exception ==
                 IF Cardinality(found) = 1
                 THEN ERROR_MESSAGE_TO_EXCEPTION_MAP[CHOOSE k \in found : TRUE]
                 ELSE "RequestError"
         IN  Exc(exception, <<"Error while requesting /", endpoint, ": ">> \o msg)

(***************************************************************************)
(* Frames, configurations and the trace.                                   *)
(***************************************************************************)
\* A coroutine frame: fn is the coroutine, pc the place it runs next.  The
\* fields after endpoint are the locals of _async_request: retry, the
\* Authorization header in kwargs["headers"], the auth=BasicAuth kwarg,
\* "not use_running_session", data, and the response being handled; start and
\* end are the keyword arguments of an emissions method.
Frame(fn, endpoint) ==
    [fn |-> fn, pc |-> "begin", endpoint |-> endpoint, retry |-> 0, hdr |-> None,
     basic |-> FALSE, adhoc |-> FALSE, data |-> EmptyDict, resp |-> NoResp,
     start |-> None, end |-> None]

\* An entry of the trace.
Ev(ev, ep) ==
    [ev |-> ev, ep |-> ep, bearer |-> None, basic |-> FALSE, tok |-> None,
     kind |-> None, body |-> EmptyDict, retry |-> 0]

\* The places where a coroutine is suspended, waiting for the event loop.
AwaitPcs == {"http", "sleep", "closing"}

Top(c) == c.stack[Len(c.stack)]
SetTop(c, f) == [c EXCEPT !.stack[Len(c.stack)] = f]
Push(c, f) == [c EXCEPT !.stack = Append(@, f)]
Pop(c) == [c EXCEPT !.stack = SubSeq(@, 1, Len(@) - 1)]
Return(c, v) == [Pop(c) EXCEPT !.ret = v]
Raise(c, e) == [c EXCEPT !.exc = e]
Log(c, e) == [c EXCEPT !.trace = Append(@, e)]
Goto(c, pc) == SetTop(c, [Top(c) EXCEPT !.pc = pc])

(***************************************************************************)
(* Client._async_request, client.py lines 139-211.                         *)
(***************************************************************************)
\* _async_request that awaits (the event loop may run another task) after
\* choosing the session and before its loop tests the token.
ReqBegin_YieldsBeforeLoop(c) ==
    LET f == Top(c)
        use_running_session == c.callerSession = "open"
    IN  SetTop([c EXCEPT !.adhocOpen = IF use_running_session THEN @ ELSE @ + 1],
               [f EXCEPT !.hdr = None, !.adhoc = ~use_running_session,
                         !.data = EmptyDict, !.retry = 0, !.pc = "sleep"])

\* Lines 155-165: the headers default, the session to use, data and retry.
ReqBegin(c) ==
    LET f == Top(c)
        use_running_session == c.callerSession = "open"
    IN  SetTop([c EXCEPT !.adhocOpen = IF use_running_session THEN @ ELSE @ + 1],
               [f EXCEPT !.hdr = None, !.adhoc = ~use_running_session,
                         !.data = EmptyDict, !.retry = 0, !.pc = "loop"])

\* ReqLoop with the loop condition off by one (retry <= request_retries).
ReqLoop_OffByOne(c) ==
    IF Top(c).retry <= request_retries
    THEN Goto(c, "attach")
    ELSE Raise(c, InvalidCredentials)

\* ReqLoop as a loop that tests its condition after the first attempt.
ReqLoop_AtLeastOnce(c) ==
    IF Top(c).retry = 0 \/ Top(c).retry < request_retries
    THEN Goto(c, "attach")
    ELSE Raise(c, InvalidCredentials)

\* Line 167 and the loop's else clause, lines 201-204.
ReqLoop(c) ==
    IF Top(c).retry < request_retries
    THEN Goto(c, "attach")
    ELSE Raise(c, InvalidCredentials)

\* ReqAttach without the test of line 168: the header is always written,
\* "Bearer None" when no token is held.
ReqAttach_NoCheck(c) ==
    LET f == Top(c)
        hdr == IF c.token # None THEN c.token ELSE "Bearer None"
    IN  Log(SetTop(c, [f EXCEPT !.hdr = hdr, !.pc = "http"]),
            [Ev("issue", f.endpoint) EXCEPT !.bearer = hdr, !.basic = f.basic,
                                            !.tok = c.token, !.retry = f.retry])

\* ReqAttach that writes the header only when kwargs has none yet.
ReqAttach_SetDefault(c) ==
    LET f == Top(c)
        hdr == IF c.token # None /\ f.hdr = None THEN c.token ELSE f.hdr
    IN  Log(SetTop(c, [f EXCEPT !.hdr = hdr, !.pc = "http"]),
            [Ev("issue", f.endpoint) EXCEPT !.bearer = hdr, !.basic = f.basic,
                                            !.tok = c.token, !.retry = f.retry])

\* Lines 168-170: the bearer header is set when a token is held (and otherwise
\* left as it is in kwargs), and the HTTP call is issued.
ReqAttach(c) ==
    LET f == Top(c)
        hdr == IF c.token # None THEN c.token ELSE f.hdr
    IN  Log(SetTop(c, [f EXCEPT !.hdr = hdr, !.pc = "http"]),
            [Ev("issue", f.endpoint) EXCEPT !.bearer = hdr, !.basic = f.basic,
                                            !.tok = c.token, !.retry = f.retry])

\* ReqResp that retries after a boundary signal without re-authenticating.
ReqResp_NoReauth(c) ==
    LET f == Top(c)
        r == f.resp
    IN  CASE r.kind = "transport" ->
               Raise(c, Exc("ClientError", <<"transport">>))
          [] r.kind = "boundary" /\ f.endpoint = LoginEndpoint ->
               Raise(c, InvalidCredentials)
          [] r.kind = "boundary" /\ f.endpoint # LoginEndpoint ->
               Log(SetTop(c, [f EXCEPT !.retry = @ + 1, !.pc = "after_auth"]),
                   [Ev("retry", f.endpoint) EXCEPT !.retry = f.retry + 1])
          [] r.kind = "fail" ->
               Raise(SetTop(c, [f EXCEPT !.data = r.body]),
                     raise_error(f.endpoint, r.body, "ClientResponseError"))
          [] r.kind = "ok" ->
               SetTop(c, [f EXCEPT !.data = r.body, !.pc = "after_loop"])

\* ReqResp that fails at once on the N-th boundary signal, without the last
\* re-authentication and delay (the retry counter checked before them).
ReqResp_GiveUpEarly(c) ==
    LET f == Top(c)
        r == f.resp
    IN  CASE r.kind = "transport" ->
               Raise(c, Exc("ClientError", <<"transport">>))
          [] r.kind = "boundary" /\ f.endpoint = LoginEndpoint ->
               Raise(c, InvalidCredentials)
          [] r.kind = "boundary" /\ f.endpoint # LoginEndpoint ->
               IF f.retry + 1 >= request_retries
               THEN Raise(c, InvalidCredentials)
               ELSE Push(Log(SetTop(c, [f EXCEPT !.retry = @ + 1, !.pc = "after_auth"]),
                             [Ev("retry", f.endpoint) EXCEPT !.retry = f.retry + 1]),
                         Frame("async_authenticate", None))
          [] r.kind = "fail" ->
               Raise(SetTop(c, [f EXCEPT !.data = r.body]),
                     raise_error(f.endpoint, r.body, "ClientResponseError"))
          [] r.kind = "ok" ->
               SetTop(c, [f EXCEPT !.data = r.body, !.pc = "after_loop"])

\* ReqResp without the special case of the login endpoint (lines 176-179).
ReqResp_LoginRetries(c) ==
    LET f == Top(c)
        r == f.resp
    IN  CASE r.kind = "transport" ->
               Raise(c, Exc("ClientError", <<"transport">>))
          [] r.kind = "boundary" ->
               Push(Log(SetTop(c, [f EXCEPT !.retry = @ + 1, !.pc = "after_auth"]),
                        [Ev("retry", f.endpoint) EXCEPT !.retry = f.retry + 1]),
                    Frame("async_authenticate", None))
          [] r.kind = "fail" ->
               Raise(SetTop(c, [f EXCEPT !.data = r.body]),
                     raise_error(f.endpoint, r.body, "ClientResponseError"))
          [] r.kind = "ok" ->
               SetTop(c, [f EXCEPT !.data = r.body, !.pc = "after_loop"])

\* ReqResp that does not keep the parsed body of a successful response.
ReqResp_DropsData(c) ==
    LET f == Top(c)
        r == f.resp
    IN  CASE r.kind = "transport" ->
               Raise(c, Exc("ClientError", <<"transport">>))
          [] r.kind = "boundary" /\ f.endpoint = LoginEndpoint ->
               Raise(c, InvalidCredentials)
          [] r.kind = "boundary" /\ f.endpoint # LoginEndpoint ->
               Push(Log(SetTop(c, [f EXCEPT !.retry = @ + 1, !.pc = "after_auth"]),
                        [Ev("retry", f.endpoint) EXCEPT !.retry = f.retry + 1]),
                    Frame("async_authenticate", None))
          [] r.kind = "fail" ->
               Raise(SetTop(c, [f EXCEPT !.data = r.body]),
                     raise_error(f.endpoint, r.body, "ClientResponseError"))
          [] r.kind = "ok" ->
               Goto(c, "after_loop")

\* ReqResp that drops the token when a request fails with a parsed body.
ReqResp_FailureDropsToken(c) ==
    LET f == Top(c)
        r == f.resp
    IN  CASE r.kind = "transport" ->
               Raise(c, Exc("ClientError", <<"transport">>))
          [] r.kind = "boundary" /\ f.endpoint = LoginEndpoint ->
               Raise(c, InvalidCredentials)
          [] r.kind = "boundary" /\ f.endpoint # LoginEndpoint ->
               Push(Log(SetTop(c, [f EXCEPT !.retry = @ + 1, !.pc = "after_auth"]),
                        [Ev("retry", f.endpoint) EXCEPT !.retry = f.retry + 1]),
                    Frame("async_authenticate", None))
          [] r.kind = "fail" ->
               Raise(SetTop([c EXCEPT !.token = None], [f EXCEPT !.data = r.body]),
                     raise_error(f.endpoint, r.body, "ClientResponseError"))
          [] r.kind = "ok" ->
               SetTop(c, [f EXCEPT !.data = r.body, !.pc = "after_loop"])

\* Lines 171-200: the response of the HTTP call.
ReqResp(c) ==
    LET f == Top(c)
        r == f.resp
    IN  CASE r.kind = "transport" ->
               Raise(c, Exc("ClientError", <<"transport">>))
          [] r.kind = "boundary" /\ f.endpoint = LoginEndpoint ->
               Raise(c, InvalidCredentials)
          [] r.kind = "boundary" /\ f.endpoint # LoginEndpoint ->
               Push(Log(SetTop(c, [f EXCEPT !.retry = @ + 1, !.pc = "after_auth"]),
                        [Ev("retry", f.endpoint) EXCEPT !.retry = f.retry + 1]),
                    Frame("async_authenticate", None))
          [] r.kind = "fail" ->
               Raise(SetTop(c, [f EXCEPT !.data = r.body]),
                     raise_error(f.endpoint, r.body, "ClientResponseError"))
          [] r.kind = "ok" ->
               SetTop(c, [f EXCEPT !.data = r.body, !.pc = "after_loop"])

\* _async_request that resubmits after re-authenticating without the delay.
ReqAfterAuth_NoDelay(c) == Goto(c, "loop")

\* Line 190: async_authenticate has returned; wait the retry delay.
ReqAfterAuth(c) ==
    Log(Goto(c, "sleep"), Ev("sleep", Top(c).endpoint))

\* _async_request closing the session whether or not it is the caller's.
ReqAfterLoop_AlwaysClose(c) == Goto(c, "closing")

\* Lines 206-207: an ad hoc session is closed.
ReqAfterLoop(c) ==
    IF Top(c).adhoc THEN Goto(c, "closing") ELSE Goto(c, "log")

\* Lines 209-211.
ReqLog(c) ==
    LET f == Top(c)
    IN  Return(Log(Log(c, [Ev("log", f.endpoint) EXCEPT !.body = f.data]),
                   [Ev("ret", f.endpoint) EXCEPT !.body = f.data]),
               f.data)

(***************************************************************************)
(* Client.async_authenticate, client.py lines 213-231.                     *)
(***************************************************************************)
\* AuthBegin without line 218: the token is kept during the login call.
AuthBegin_NoClear(c) ==
    IF c.creds
    THEN Push(Log(Goto(c, "store"), Ev("clear", LoginEndpoint)),
              [Frame("_async_request", LoginEndpoint) EXCEPT !.basic = TRUE])
    ELSE Return(c, NoneVal)

\* async_authenticate without the guard of line 215: it logs in even when
\* the client holds no username and password.
AuthBegin_NoGuard(c) ==
    Push(Log(Goto([c EXCEPT !.token = None], "store"), Ev("clear", LoginEndpoint)),
         [Frame("_async_request", LoginEndpoint) EXCEPT !.basic = TRUE])

\* Lines 215-229.
AuthBegin(c) ==
    IF c.creds
    THEN Push(Log(Goto([c EXCEPT !.token = None], "store"), Ev("clear", LoginEndpoint)),
              [Frame("_async_request", LoginEndpoint) EXCEPT !.basic = TRUE])
    ELSE Return(c, NoneVal)

\* async_authenticate that reads the login response and keeps the old token.
AuthStore_NoStore(c) ==
    LET token_resp == c.ret
    IN  IF "token" \in DOMAIN token_resp
        THEN Return(Log(c, [Ev("store", LoginEndpoint) EXCEPT !.tok = token_resp.token]),
                    NoneVal)
        ELSE Raise(c, Exc("KeyError", <<"token">>))

\* async_authenticate that stores the token only when none is held.
AuthStore_FirstWriterWins(c) ==
    LET token_resp == c.ret
    IN  IF "token" \in DOMAIN token_resp
        THEN Return(Log([c EXCEPT !.token = IF @ = None THEN token_resp.token ELSE @,
                                  !.lastStore = [task |-> c.task, tok |-> token_resp.token]],
                        [Ev("store", LoginEndpoint) EXCEPT !.tok = token_resp.token]),
                    NoneVal)
        ELSE Raise(c, Exc("KeyError", <<"token">>))

\* Line 231.
AuthStore(c) ==
    LET token_resp == c.ret
    IN  IF "token" \in DOMAIN token_resp
        THEN Return(Log([c EXCEPT !.token = token_resp.token,
                                  !.lastStore = [task |-> c.task, tok |-> token_resp.token]],
                        [Ev("store", LoginEndpoint) EXCEPT !.tok = token_resp.token]),
                    NoneVal)
        ELSE Raise(c, Exc("KeyError", <<"token">>))

(***************************************************************************)
(* The entry points of Client, client.py.                                  *)
(***************************************************************************)
\* async_login, lines 82-90: a new client (no token), the credentials stored.
LoginBegin(c) ==
    Push(Goto([c EXCEPT !.token = None, !.creds = TRUE], "ret"),
         Frame("async_authenticate", None))

\* async_login, line 91: the client is handed to the caller.
LoginRet(c) == Return([c EXCEPT !.phase = "ready"], ClientVal)

\* async_register_new_username, lines 121-136: a new client with no
\* credentials issues the register request.
RegisterBegin(c) ==
    Push(Goto([c EXCEPT !.token = None, !.creds = FALSE], "ret"),
         Frame("_async_request", "register"))

\* async_register_new_username, line 137.
RegisterRet(c) == Return(c, c.ret)

\* async_request_password_reset, line 235; the coroutine returns None.
PasswordBegin(c) == Push(Goto(c, "ret"), Frame("_async_request", "password"))
PasswordRet(c) == Return(c, NoneVal)

(***************************************************************************)
(* EmissionsAPI, emissions.py.  ensure_start_and_end_datetime() is called  *)
(* in the class body (lines 88 and 105) as a statement, not applied as a   *)
(* decorator, and returns None: the two methods run undecorated.           *)
(***************************************************************************)
\* async_get_grid_region, lines 83-86.
GridRegionBegin(c) == Push(Goto(c, "ret"), Frame("_async_request", "ba-from-loc"))
GridRegionRet(c) == Return(c, c.ret)

\* async_get_realtime_emissions, lines 128-131.
RealtimeBegin(c) == Push(Goto(c, "ret"), Frame("_async_request", "index"))
RealtimeRet(c) == Return(c, c.ret)

\* The parameters built at lines 97-100 and 116-119: with a start time,
\* end_datetime.isoformat() is evaluated, which fails on None.
TimeParams(c) ==
    LET f == Top(c)
    IN  IF f.start # None /\ f.end = None
        THEN Raise(c, Exc("AttributeError", <<"isoformat">>))
        ELSE c

\* async_get_forecasted_emissions, lines 97-103.
ForecastBegin(c) ==
    LET d == TimeParams(c)
    IN  IF d.exc # NoExc THEN d
        ELSE Push(Goto(d, "ret"), Frame("_async_request", "forecast"))
ForecastRet(c) == Return(c, c.ret)

\* async_get_historical_emissions, lines 116-122.
HistoricalBegin(c) ==
    LET d == TimeParams(c)
    IN  IF d.exc # NoExc THEN d
        ELSE Push(Goto(d, "ret"), Frame("_async_request", "data"))
HistoricalRet(c) == Return(c, c.ret)

(***************************************************************************)
(* Running a task between two suspension points.                           *)
(***************************************************************************)
\* A re-authentication whose errors are swallowed, so that the request that
\* asked for it goes on with its remaining retries.
Propagate_ReauthSwallows(c) ==
    IF Top(c).fn = "async_authenticate" /\ Len(c.stack) > 2
    THEN Return([c EXCEPT !.exc = NoExc], NoneVal)
    ELSE Pop(c)

\* A re-authentication that puts the token it replaced back when its login
\* call fails.
Propagate_RestoresToken(c) ==
    IF Top(c).fn = "async_authenticate"
    THEN [Pop(c) EXCEPT !.token = c.lastStore.tok]
    ELSE Pop(c)

\* An exception no frame handles leaves the frame on top.  _async_request
\* has no handler around its loop, so an ad hoc session stays open.
Propagate(c) == Pop(c)

\* One statement group of the frame on top.
Step(c) ==
    LET f == Top(c)
        at == <<f.fn, f.pc>>
    IN  CASE c.exc # NoExc -> Propagate(c)
          [] at = <<"_async_request", "begin">> -> ReqBegin(c)
          [] at = <<"_async_request", "loop">> -> ReqLoop(c)
          [] at = <<"_async_request", "attach">> -> ReqAttach(c)
          [] at = <<"_async_request", "resp">> -> ReqResp(c)
          [] at = <<"_async_request", "after_auth">> -> ReqAfterAuth(c)
          [] at = <<"_async_request", "after_loop">> -> ReqAfterLoop(c)
          [] at = <<"_async_request", "log">> -> ReqLog(c)
          [] at = <<"async_authenticate", "begin">> -> AuthBegin(c)
          [] at = <<"async_authenticate", "store">> -> AuthStore(c)
          [] at = <<"async_login", "begin">> -> LoginBegin(c)
          [] at = <<"async_login", "ret">> -> LoginRet(c)
          [] at = <<"async_register_new_username", "begin">> -> RegisterBegin(c)
          [] at = <<"async_register_new_username", "ret">> -> RegisterRet(c)
          [] at = <<"async_request_password_reset", "begin">> -> PasswordBegin(c)
          [] at = <<"async_request_password_reset", "ret">> -> PasswordRet(c)
          [] at = <<"async_get_grid_region", "begin">> -> GridRegionBegin(c)
          [] at = <<"async_get_grid_region", "ret">> -> GridRegionRet(c)
          [] at = <<"async_get_realtime_emissions", "begin">> -> RealtimeBegin(c)
          [] at = <<"async_get_realtime_emissions", "ret">> -> RealtimeRet(c)
          [] at = <<"async_get_forecasted_emissions", "begin">> -> ForecastBegin(c)
          [] at = <<"async_get_forecasted_emissions", "ret">> -> ForecastRet(c)
          [] at = <<"async_get_historical_emissions", "begin">> -> HistoricalBegin(c)
          [] at = <<"async_get_historical_emissions", "ret">> -> HistoricalRet(c)

\* Whether the task is suspended (or its call is over).
Suspended(c) ==
    \/ c.stack = <<>>
    \/ c.exc = NoExc /\ Top(c).pc \in AwaitPcs

RECURSIVE Run(_)
Run(c) == IF Suspended(c) THEN c ELSE Run(Step(c))

\* The configuration task t runs in, and the state it leaves.
Cfg(t) ==
    [stack |-> stack[t], trace |-> trace[t], token |-> token, creds |-> creds,
     phase |-> phase, adhocOpen |-> adhocOpen, callerSession |-> callerSession,
     task |-> t, lastStore |-> lastStore, exc |-> NoExc, ret |-> NoneVal]

Outcome(c) ==
    IF c.stack # <<>> THEN [kind |-> "pending", val |-> NoneVal]
    ELSE IF c.exc # NoExc THEN [kind |-> "raise", val |-> c.exc]
    ELSE [kind |-> "return", val |-> c.ret]

Commit(t, c) ==
    /\ stack' = [stack EXCEPT ![t] = c.stack]
    /\ trace' = [trace EXCEPT ![t] = c.trace]
    /\ result' = [result EXCEPT ![t] = Outcome(c)]
    /\ token' = c.token
    /\ creds' = c.creds
    /\ phase' = c.phase
    /\ adhocOpen' = c.adhocOpen
    /\ callerSession' = c.callerSession
    /\ lastStore' = c.lastStore
    /\ UNCHANGED <<request_retries, overlap>>

Idle(t) == stack[t] = <<>>

\* Task t starts a call whose outermost coroutine is f.
Call(t, f) ==
    /\ Idle(t)
    /\ calls < MaxCalls
    /\ overlap \/ (t = 1 /\ \A u \in Tasks : Idle(u))
    /\ calls' = calls + 1
    /\ op' = [op EXCEPT ![t] = f]
    /\ Commit(t, Run([Cfg(t) EXCEPT !.stack = <<f>>, !.trace = <<>>]))

\* Task t resumes from its suspension point in configuration c.
Resume(t, c) ==
    /\ UNCHANGED <<calls, op>>
    /\ Commit(t, Run(c))

AtPc(t, pc) == ~Idle(t) /\ stack[t][Len(stack[t])].pc = pc
TopFrame(t) == stack[t][Len(stack[t])]

(***************************************************************************)
(* The calls a user makes.                                                 *)
(***************************************************************************)
AsyncLogin(t) ==
    /\ phase = "new"
    /\ \A u \in Tasks : Idle(u)
    /\ Call(t, Frame("async_login", None))

AsyncRegisterNewUsername(t) ==
    /\ phase = "new"
    /\ \A u \in Tasks : Idle(u)
    /\ Call(t, Frame("async_register_new_username", None))

AsyncRequestPasswordReset(t) ==
    /\ phase = "ready"
    /\ Call(t, Frame("async_request_password_reset", None))

AsyncGetGridRegion(t) ==
    /\ phase = "ready"
    /\ Call(t, Frame("async_get_grid_region", None))

AsyncGetRealtimeEmissions(t) ==
    /\ phase = "ready"
    /\ Call(t, Frame("async_get_realtime_emissions", None))

AsyncGetForecastedEmissions(t) ==
    /\ phase = "ready"
    /\ \E s \in Times, e \in Times :
         Call(t, [Frame("async_get_forecasted_emissions", None)
                    EXCEPT !.start = s, !.end = e])

AsyncGetHistoricalEmissions(t) ==
    /\ phase = "ready"
    /\ \E s \in Times, e \in Times :
         Call(t, [Frame("async_get_historical_emissions", None)
                    EXCEPT !.start = s, !.end = e])

(***************************************************************************)
(* The event loop: the server answers an HTTP call, a delay ends, a close  *)
(* completes.                                                              *)
(***************************************************************************)
\* The task's HTTP call gets response r: resp.json() and what follows run.
Deliver(t, r) ==
    LET f == TopFrame(t)
        c == Log(SetTop(Cfg(t), [f EXCEPT !.resp = r, !.pc = "resp"]),
                 [Ev("resp", f.endpoint) EXCEPT !.kind = r.kind, !.body = r.body])
    IN  Resume(t, c)

\* A body that is not JSON: resp.json() raises ContentTypeError.
HttpBoundary(t) ==
    /\ AtPc(t, "http")
    /\ Deliver(t, Resp("boundary", EmptyDict))

\* A JSON body with a success status.
HttpSuccess(t) ==
    /\ AtPc(t, "http")
    /\ \E b \in (IF TopFrame(t).endpoint = LoginEndpoint THEN LoginBodies ELSE Payloads) :
         Deliver(t, Resp("ok", b))

\* A JSON body with a failure status: raise_for_status raises.
HttpFailure(t) ==
    /\ AtPc(t, "http")
    /\ \E b \in FailBodies : Deliver(t, Resp("fail", b))

\* The HTTP call itself fails (connection error, timeout).
HttpTransportError(t) ==
    /\ AtPc(t, "http")
    /\ Deliver(t, Resp("transport", EmptyDict))

\* asyncio.sleep(request_retry_delay) ends: line 191, continue.
SleepDone(t) ==
    /\ AtPc(t, "sleep")
    /\ Resume(t, Log(Goto(Cfg(t), "loop"), Ev("wake", TopFrame(t).endpoint)))

\* An engine that takes the cancellation for one more reason to resubmit.
OnCancel_Resubmits(c) ==
    Goto(Log(c, [Ev("cancel", Top(c).endpoint) EXCEPT !.kind = Top(c).pc, !.tok = c.token]),
         "loop")

\* The caller cancels the task: CancelledError is thrown into the coroutine
\* at the await it is suspended on (lines 170-172, 190 or 207).  No handler
\* of _async_request or its callers catches it, no finally clause runs, and
\* the Session is left as it is.
OnCancel(c) ==
    Raise(Log(c, [Ev("cancel", Top(c).endpoint) EXCEPT !.kind = Top(c).pc, !.tok = c.token]),
          Exc("CancelledError", <<>>))

Cancel(t) ==
    /\ ~Idle(t)
    /\ TopFrame(t).pc \in AwaitPcs
    /\ Resume(t, OnCancel(Cfg(t)))

\* session.close() on the session the request used, line 207: the session is
\* the one made at line 162 when the frame is ad hoc, else Client._session.
SessionClose(c) ==
    IF Top(c).adhoc
    THEN [c EXCEPT !.adhocOpen = @ - 1]
    ELSE [c EXCEPT !.callerSession = "closed"]

\* The await of line 207 completes.
CloseDone(t) ==
    /\ AtPc(t, "closing")
    /\ Resume(t, Goto(SessionClose(Cfg(t)), "log"))

(***************************************************************************)
(* The specification.                                                      *)
(***************************************************************************)
\* request_retries is an int the caller passes: negative, 0 or positive.
RetryChoices == (0 - 1)..MaxRetries

InitCommon ==
    /\ request_retries \in RetryChoices
    /\ callerSession \in {"none", "open", "closed"}
    /\ token = None
    /\ creds = FALSE
    /\ phase = "new"
    /\ stack = [t \in Tasks |-> <<>>]
    /\ result = [t \in Tasks |-> [kind |-> "none", val |-> NoneVal]]
    /\ trace = [t \in Tasks |-> <<>>]
    /\ adhocOpen = 0
    /\ calls = 0
    /\ op = [t \in Tasks |-> Frame(None, None)]
    /\ lastStore = [task |-> 0, tok |-> None]

\* One client driven sequentially: a call starts when the last one is over.
Init == InitCommon /\ overlap = FALSE

\* One client, made with the caller's open session, shared by two tasks
\* whose calls may overlap.
ConcInit ==
    /\ InitCommon
    /\ overlap = TRUE
    /\ callerSession = "open"
    /\ request_retries \in 1..MaxConcRetries

Next ==
    \E t \in Tasks :
        \/ AsyncLogin(t)
        \/ AsyncRegisterNewUsername(t)
        \/ AsyncRequestPasswordReset(t)
        \/ AsyncGetGridRegion(t)
        \/ AsyncGetRealtimeEmissions(t)
        \/ AsyncGetForecastedEmissions(t)
        \/ AsyncGetHistoricalEmissions(t)
        \/ HttpBoundary(t)
        \/ HttpSuccess(t)
        \/ HttpFailure(t)
        \/ HttpTransportError(t)
        \/ SleepDone(t)
        \/ CloseDone(t)
        \/ Cancel(t)

Spec == Init /\ [][Next]_vars

\* The overlapping calls are realtime-emissions requests; the server answers
\* with a boundary signal, a payload or a failure, or the connection fails.
ConcNext ==
    \E t \in Tasks :
        \/ AsyncLogin(t)
        \/ AsyncGetRealtimeEmissions(t)
        \/ HttpBoundary(t)
        \/ HttpSuccess(t)
        \/ HttpFailure(t)
        \/ HttpTransportError(t)
        \/ SleepDone(t)

ConcSpec == ConcInit /\ [][ConcNext]_vars

(***************************************************************************)
(* Reading the trace of a call.                                            *)
(***************************************************************************)
IsIssue(e) == e.ev = "issue"
IsAttempt(e) == e.ev = "issue" /\ e.ep # LoginEndpoint
IsLoginCall(e) == e.ev = "issue" /\ e.ep = LoginEndpoint
IsBoundary(e) == e.ev = "resp" /\ e.kind = "boundary"
IsAttemptBoundary(e) == IsBoundary(e) /\ e.ep # LoginEndpoint
IsCancel(e) == e.ev = "cancel"

\* The positions of tr whose entries satisfy P, and how many there are up to i.
Positions(tr, P(_)) == {i \in 1..Len(tr) : P(tr[i])}
CountUpTo(tr, i, P(_)) == Cardinality({j \in 1..i : P(tr[j])})
Count(tr, P(_)) == CountUpTo(tr, Len(tr), P)

\* The call of task t is over and ended with exception class type.
Raised(t, type) == Idle(t) /\ result[t].kind = "raise" /\ result[t].val.type = type

\* Every re-authentication of the call so far obtained a token.
IsStore(e) == e.ev = "store"
LoginsSucceeded(tr) == Count(tr, IsStore) = Count(tr, IsLoginCall)

\* All responses to attempts of the original request were boundary signals.
OnlyBoundaries(tr) ==
    \A i \in 1..Len(tr) : (tr[i].ev = "resp" /\ tr[i].ep # LoginEndpoint) => IsBoundary(tr[i])

(***************************************************************************)
(* C1.  On a logged-in client with request_retries = N >= 1, a non-login   *)
(* request never gets an (N+1)-th attempt; and when every attempt received *)
(* a boundary signal while every re-authentication login succeeded and the *)
(* caller did not cancel, the call is over after exactly N attempts, with  *)
(* InvalidCredentialsError.                                                *)
(* A call issues at most N attempts and N login calls, so it cannot go on  *)
(* for ever.                                                               *)
(***************************************************************************)
C1_RetryBounded ==
    \A t \in Tasks :
        LET tr == trace[t]
        IN  (request_retries >= 1 /\ creds) =>
              /\ Count(tr, IsAttempt) <= request_retries
              /\ Count(tr, IsLoginCall) <= request_retries
              /\ (/\ Idle(t)
                  /\ Count(tr, IsAttempt) >= 1
                  /\ Count(tr, IsCancel) = 0
                  /\ OnlyBoundaries(tr)
                  /\ LoginsSucceeded(tr))
                 => /\ Count(tr, IsAttempt) = request_retries
                    /\ Count(tr, IsAttemptBoundary) = request_retries
                    /\ Raised(t, "InvalidCredentialsError")

C1_Witness ==
    \E t \in Tasks :
        /\ request_retries = 3
        /\ creds
        /\ OnlyBoundaries(trace[t])
        /\ LoginsSucceeded(trace[t])
        /\ Count(trace[t], IsAttempt) = 3
        /\ Raised(t, "InvalidCredentialsError")

\* The least element of a non-empty set of positions.
Least(S) == CHOOSE i \in S : \A j \in S : i <= j

\* The login calls issued after position i and before the next attempt of
\* the original request (or up to the end of the trace).
LoginsAfter(tr, i) ==
    LET later == {j \in Positions(tr, IsAttempt) : j > i}
        end == IF later = {} THEN Len(tr) ELSE Least(later)
    IN  Cardinality({k \in i..end : IsLoginCall(tr[k])})

(***************************************************************************)
(* C2 as claimed.  For every non-login endpoint, register included, each   *)
(* boundary-signal response to an attempt is followed by exactly one login *)
(* call before the original request is retried.                            *)
(***************************************************************************)
C2_Original ==
    \A t \in Tasks :
        \A i \in Positions(trace[t], IsAttemptBoundary) : LoginsAfter(trace[t], i) = 1

(***************************************************************************)
(* C2 as amended.  On a client that holds credentials (every non-login     *)
(* endpoint but register), each boundary-signal response to an attempt is  *)
(* followed at once by exactly one login call before the original request  *)
(* is retried; on the client without credentials that issues the register  *)
(* request, async_authenticate is called and issues no login call.         *)
(***************************************************************************)
C2_OneReauthPerBoundary ==
    \A t \in Tasks :
        LET tr == trace[t]
        IN  \A i \in Positions(tr, IsAttemptBoundary) :
              /\ tr[i + 1].ev = "retry"
              /\ creds => /\ LoginsAfter(tr, i) = 1
                          /\ tr[i + 2].ev = "clear"
                          /\ IsLoginCall(tr[i + 3])
              /\ ~creds => /\ LoginsAfter(tr, i) = 0
                           /\ tr[i].ep = "register"

C2_Witness ==
    \E t \in Tasks :
        LET tr == trace[t]
        IN  /\ creds
            /\ Count(tr, IsAttempt) = 2
            /\ Count(tr, IsLoginCall) = 1
            /\ \E i \in Positions(tr, IsAttemptBoundary) :
                 \E j \in Positions(tr, IsAttempt) : j > i

(***************************************************************************)
(* C3 as claimed.  After the N-th consecutive boundary signal on a         *)
(* non-login request (N = request_retries) no further HTTP call is issued  *)
(* for that request, neither a login call nor another attempt.             *)
(***************************************************************************)
C3_Original ==
    \A t \in Tasks :
        LET tr == trace[t]
        IN  \A i \in Positions(tr, IsAttemptBoundary) :
              CountUpTo(tr, i, IsAttemptBoundary) = request_retries
                => \A j \in (i + 1)..Len(tr) : ~IsIssue(tr[j])

(***************************************************************************)
(* C3 as amended.  After the N-th consecutive boundary signal on a         *)
(* non-login request the client still re-authenticates once (one more      *)
(* login call when it holds credentials) and waits the retry delay; when   *)
(* the delay is over the call fails with InvalidCredentialsError.  No      *)
(* further attempt of the original request is issued, and nothing is       *)
(* issued after the call has failed.                                       *)
(***************************************************************************)
C3_AfterLastBoundary ==
    \A t \in Tasks :
        LET tr == trace[t]
        IN  \A i \in Positions(tr, IsAttemptBoundary) :
              CountUpTo(tr, i, IsAttemptBoundary) = request_retries
                => /\ \A j \in (i + 1)..Len(tr) : ~IsAttempt(tr[j])
                   /\ LoginsAfter(tr, i) = (IF creds THEN 1 ELSE 0)
                   /\ \A j \in (i + 1)..Len(tr) :
                        tr[j].ev = "wake"
                          => /\ j = Len(tr)
                             /\ tr[j - 1].ev = "sleep"
                             /\ Raised(t, "InvalidCredentialsError")

C3_Witness ==
    \E t \in Tasks :
        LET tr == trace[t]
        IN  /\ request_retries = 2
            /\ creds
            /\ Count(tr, IsAttemptBoundary) = 2
            /\ Count(tr, IsLoginCall) = 2
            /\ tr[Len(tr)].ev = "wake"
            /\ Raised(t, "InvalidCredentialsError")

(***************************************************************************)
(* C4.  A boundary-signal response to the login endpoint ends the call at  *)
(* once with InvalidCredentialsError: the login request issued exactly one *)
(* HTTP call, and after the response no retry is counted, no               *)
(* re-authentication is started, no delay is waited and nothing more is    *)
(* issued; async_login then issued one HTTP call in all.                   *)
(***************************************************************************)
C4_LoginBoundaryFailsAtOnce ==
    \A t \in Tasks :
        LET tr == trace[t]
        IN  \A i \in 1..Len(tr) :
              (IsBoundary(tr[i]) /\ tr[i].ep = LoginEndpoint)
                => /\ i = Len(tr)
                   /\ Idle(t)
                   /\ result[t] = [kind |-> "raise", val |-> InvalidCredentials]
                   /\ i >= 3 /\ tr[i - 2].ev = "clear" /\ IsLoginCall(tr[i - 1])
                   /\ op[t].fn = "async_login" => Count(tr, IsIssue) = 1

C4_Witness ==
    \E t \in Tasks :
        /\ request_retries = 3
        /\ op[t].fn = "async_login"
        /\ Len(trace[t]) = 3
        /\ IsBoundary(trace[t][3])
        /\ Raised(t, "InvalidCredentialsError")

(***************************************************************************)
(* C5.  On a client driven sequentially no HTTP call carries both a bearer *)
(* header and basic-auth credentials: every login call, also one issued by *)
(* a re-authentication from inside the retry loop, carries basic-auth and  *)
(* no Authorization header, and no other call carries basic-auth.          *)
(***************************************************************************)
C5_BearerXorBasic ==
    \A t \in Tasks :
        \A i \in Positions(trace[t], IsIssue) :
            LET e == trace[t][i]
            IN  /\ ~(e.bearer # None /\ e.basic)
                /\ e.ep = LoginEndpoint => (e.basic /\ e.bearer = None)
                /\ e.ep # LoginEndpoint => ~e.basic

C5_Witness ==
    \E t \in Tasks :
        \E i, j \in Positions(trace[t], IsIssue) :
            /\ i < j
            /\ IsAttempt(trace[t][i]) /\ trace[t][i].bearer \in Tokens
            /\ IsLoginCall(trace[t][j]) /\ trace[t][j].basic

(***************************************************************************)
(* C6.  The token is cleared before each (re-)authentication: a login call *)
(* is issued right after the token was cleared, with no token stored, and  *)
(* while the login call is in flight the Session holds no token.           *)
(***************************************************************************)
C6_TokenClearedBeforeLogin ==
    \A t \in Tasks :
        /\ \A i \in Positions(trace[t], IsLoginCall) :
             /\ trace[t][i].tok = None
             /\ i >= 2 /\ trace[t][i - 1].ev = "clear"
        /\ (AtPc(t, "http") /\ TopFrame(t).endpoint = LoginEndpoint) => token = None

C6_Witness ==
    \E t \in Tasks :
        /\ AtPc(t, "http")
        /\ TopFrame(t).endpoint = LoginEndpoint
        /\ \E i \in Positions(trace[t], IsAttempt) : trace[t][i].tok \in Tokens

(***************************************************************************)
(* C7.  On a client driven sequentially, whose login endpoint hands out    *)
(* non-empty tokens, every attempt of a non-login request carries as       *)
(* bearer token the token the Session holds when the attempt is issued;    *)
(* after a re-authentication within the call that is the token the latest  *)
(* login returned, never the one carried by the attempt before.            *)
(***************************************************************************)
C7_AttemptCarriesCurrentToken ==
    \A t \in Tasks :
        LET tr == trace[t]
        IN  \A i \in Positions(tr, IsAttempt) :
              /\ tr[i].bearer = tr[i].tok
              /\ \A j \in Positions(tr, IsStore) :
                   (j < i /\ \A k \in Positions(tr, IsStore) : k < i => k <= j)
                     => tr[i].bearer = tr[j].tok

C7_Witness ==
    \E t \in Tasks :
        LET tr == trace[t]
        IN  \E i, j, k \in 1..Len(tr) :
              /\ i < j /\ j < k
              /\ IsAttempt(tr[i]) /\ tr[i].bearer = "abcd1234"
              /\ IsStore(tr[j]) /\ tr[j].tok = "efgh5678"
              /\ IsAttempt(tr[k]) /\ tr[k].bearer = "efgh5678"

IsFail(e) == e.ev = "resp" /\ e.kind = "fail"
IsOk(e) == e.ev = "resp" /\ e.kind = "ok"

(***************************************************************************)
(* C8 as claimed.  A response whose body parses and whose HTTP status is a *)
(* failure ends the call with the classified error, an error of the        *)
(* package's taxonomy, without any retry: nothing is issued after it (one  *)
(* HTTP call in all when it answers the first attempt), no                 *)
(* re-authentication is started, and the token is the one held when the    *)
(* request was issued.                                                     *)
(***************************************************************************)
C8_Original ==
    \A t \in Tasks :
        LET tr == trace[t]
        IN  \A i \in Positions(tr, IsFail) :
              /\ i = Len(tr)
              /\ Idle(t)
              /\ result[t].kind = "raise"
              /\ result[t].val.type \in WattTimeErrors
              /\ token = tr[i - 1].tok
              /\ Count(tr, IsFail) = 1
              /\ CountUpTo(tr, i, IsBoundary) = 0 => Count(tr, IsIssue) = 1

\* The part of C8 that holds of the code: no retry, no re-authentication and
\* no change of the token after a parsed failure, whatever error is raised.
C8_NoRetryPart ==
    \A t \in Tasks :
        LET tr == trace[t]
        IN  \A i \in Positions(tr, IsFail) :
              /\ i = Len(tr)
              /\ Idle(t)
              /\ result[t] = [kind |-> "raise",
                              val |-> raise_error(tr[i].ep, tr[i].body, "ClientResponseError")]
              /\ IsIssue(tr[i - 1]) /\ tr[i - 1].ep = tr[i].ep
              /\ token = tr[i - 1].tok
              /\ CountUpTo(tr, i, IsBoundary) = 0 => Count(tr, IsIssue) = 1

(***************************************************************************)
(* C9.  For every endpoint, a response with a parseable body and a success *)
(* status makes _async_request return the parsed body (after closing an ad *)
(* hoc session), on the first attempt and on a retry alike, and the        *)
(* endpoint methods that return the payload hand that body to the caller.  *)
(***************************************************************************)
C9_PassThrough ==
    \A t \in Tasks :
        LET tr == trace[t]
            n == Len(tr)
        IN  /\ \A i \in Positions(tr, IsOk) :
                 IF i = n
                 THEN AtPc(t, "closing") /\ TopFrame(t).data = tr[i].body
                 ELSE IF IsCancel(tr[i + 1])
                 THEN tr[i + 1].kind = "closing" /\ Raised(t, "CancelledError")
                 ELSE /\ i + 2 <= n
                      /\ tr[i + 1].ev = "log"
                      /\ tr[i + 2].ev = "ret"
                      /\ tr[i + 2].ep = tr[i].ep
                      /\ tr[i + 2].body = tr[i].body
            /\ (/\ Idle(t) /\ n > 0 /\ tr[n].ev = "ret"
                /\ tr[n].ep \in NonLoginEndpoints \ {"password"})
               => result[t] = [kind |-> "return", val |-> tr[n - 2].body]

C9_Witness ==
    \E t \in Tasks :
        LET tr == trace[t]
            n == Len(tr)
        IN  /\ Idle(t) /\ n > 0
            /\ tr[n].ev = "ret" /\ tr[n].ep = "index"
            /\ Count(tr, IsAttemptBoundary) >= 1
            /\ result[t] = [kind |-> "return", val |-> [ba |-> "PSCO"]]

\* The error ensure_start_and_end_datetime's wrapper raises (emissions.py line 70).
StartEndError == Exc("ValueError", <<"start_datetime and end_datetime must go together">>)

(***************************************************************************)
(* C10 as claimed.  async_get_forecasted_emissions and                     *)
(* async_get_historical_emissions called with a start time and no end time *)
(* fail with ValueError "start_datetime and end_datetime must go together" *)
(* before any network call is made.                                        *)
(***************************************************************************)
C10_Original ==
    \A t \in Tasks :
        (/\ Idle(t)
         /\ op[t].fn \in {"async_get_forecasted_emissions", "async_get_historical_emissions"}
         /\ op[t].start # None /\ op[t].end = None)
        => /\ result[t] = [kind |-> "raise", val |-> StartEndError]
           /\ Count(trace[t], IsIssue) = 0

(***************************************************************************)
(* C11 as claimed.  async_get_forecasted_emissions and                     *)
(* async_get_historical_emissions called with an end time and no start     *)
(* time fail at once with the parameter-validation error and issue no      *)
(* network call; the request engine is invoked (an HTTP call is issued)    *)
(* only when start and end times are both present or both absent.          *)
(***************************************************************************)
C11_Original ==
    \A t \in Tasks :
        op[t].fn \in {"async_get_forecasted_emissions", "async_get_historical_emissions"}
        => /\ (Idle(t) /\ op[t].start = None /\ op[t].end # None)
                => /\ result[t] = [kind |-> "raise", val |-> StartEndError]
                   /\ Count(trace[t], IsIssue) = 0
           /\ Count(trace[t], IsIssue) > 0
                => ((op[t].start = None) <=> (op[t].end = None))

\* The message text of a parsed failure body: 'message', else 'error'.
HasMsg(body) == "message" \in DOMAIN body \/ "error" \in DOMAIN body
MsgOf(body) == IF "message" \in DOMAIN body THEN body.message ELSE body.error

\* The text a typed error ends with.
EndsWith(text, msg) ==
    Len(text) >= Len(msg) /\ SubSeq(text, Len(text) - Len(msg) + 1, Len(text)) = msg

(***************************************************************************)
(* C12 as claimed.  For a parsed failure body with a message text (from    *)
(* 'message', else from 'error'): a text containing "That username is      *)
(* taken" gives UsernameTakenError, one containing "Invalid scope" gives    *)
(* InvalidScopeError, and any other text gives RequestError carrying the   *)
(* text.                                                                   *)
(***************************************************************************)
C12_Original ==
    \A t \in Tasks :
        LET tr == trace[t]
        IN  \A i \in Positions(tr, IsFail) :
              HasMsg(tr[i].body) =>
                LET msg == MsgOf(tr[i].body)
                    e == result[t].val
                IN  /\ result[t].kind = "raise"
                    /\ Contains(msg, MsgTaken) => e.type = "UsernameTakenError"
                    /\ Contains(msg, MsgScope) => e.type = "InvalidScopeError"
                    /\ (~Contains(msg, MsgTaken) /\ ~Contains(msg, MsgScope))
                         => (e.type = "RequestError" /\ EndsWith(e.text, msg))

(***************************************************************************)
(* C12 as amended.  For a parsed failure body with a message text (from    *)
(* 'message', else from 'error'): a text containing exactly one phrase of  *)
(* the table gives that phrase's error (UsernameTakenError for "That       *)
(* username is taken", InvalidScopeError for "Invalid scope"); a text      *)
(* containing none of them, or more than one, gives RequestError.  Every   *)
(* such error carries the endpoint and the original text.                  *)
(***************************************************************************)
C12_Classified ==
    \A t \in Tasks :
        LET tr == trace[t]
        IN  \A i \in Positions(tr, IsFail) :
              HasMsg(tr[i].body) =>
                LET msg == MsgOf(tr[i].body)
                    taken == Contains(msg, MsgTaken)
                    scope == Contains(msg, MsgScope)
                    e == result[t].val
                IN  /\ result[t].kind = "raise"
                    /\ (taken /\ ~scope) => e.type = "UsernameTakenError"
                    /\ (scope /\ ~taken) => e.type = "InvalidScopeError"
                    /\ (taken <=> scope) => e.type = "RequestError"
                    /\ EndsWith(e.text, msg)
                    /\ e.text[2] = tr[i].ep

C12_Witness ==
    \E t \in Tasks :
        LET tr == trace[t]
        IN  /\ Len(tr) > 0 /\ IsFail(tr[Len(tr)])
            /\ tr[Len(tr)].ep = "register"
            /\ tr[Len(tr)].body = [message |-> MsgTaken]
            /\ Raised(t, "UsernameTakenError")

(***************************************************************************)
(* C13 as claimed.  The classifier never throws for an unrecognized shape: *)
(* every parsed failure body, also one with neither a 'message' nor an     *)
(* 'error' field, ends the call with one error of the package's taxonomy   *)
(* (RequestError as the fallback), not with an untyped exception.          *)
(***************************************************************************)
C13_Original ==
    \A t \in Tasks :
        \A i \in Positions(trace[t], IsFail) :
            /\ result[t].kind = "raise"
            /\ result[t].val.type \in WattTimeErrors
            /\ ~HasMsg(trace[t][i].body) => result[t].val.type = "RequestError"

(***************************************************************************)
(* C14 as claimed.  A parsed failure response to the grid-region lookup    *)
(* whose message reports that no coverage is available fails with          *)
(* CoordinatesNotFoundError, not with the generic RequestError.            *)
(***************************************************************************)
C14_Original ==
    \A t \in Tasks :
        \A i \in Positions(trace[t], IsFail) :
            (/\ trace[t][i].ep = "ba-from-loc"
             /\ HasMsg(trace[t][i].body)
             /\ Contains(MsgOf(trace[t][i].body), MsgNoCoverage))
            => /\ result[t].kind = "raise"
               /\ result[t].val.type = "CoordinatesNotFoundError"


(***************************************************************************)
(* C15: the request engine never closes a session the caller supplied: no  *)
(* step of any call, whatever its outcome, changes the open/closed state   *)
(* of Client._session.                                                     *)
(***************************************************************************)
C15_CallerSessionUntouched == [][callerSession' = callerSession]_vars

\* A call on the caller's open session went through a boundary signal and a
\* re-authentication and is over, and the session is open.
C15_Witness ==
    \E t \in Tasks :
        /\ callerSession = "open"
        /\ Idle(t)
        /\ result[t].kind \in {"return", "raise"}
        /\ Count(trace[t], IsAttemptBoundary) > 0
        /\ Count(trace[t], IsStore) > 0


(***************************************************************************)
(* C16 as stated: every session the engine made for a call is closed by    *)
(* the time the call is over, whatever the outcome.                        *)
(***************************************************************************)
C16_Original == (\A t \in Tasks : Idle(t)) => adhocOpen = 0


(***************************************************************************)
(* C17: the token is absent until a login succeeds and is replaced by each *)
(* successful login: no token is held while no client has been returned, a *)
(* store writes the token field of the login response just received, the   *)
(* token held after it is that field, a client returned by async_login     *)
(* holds the token field of the latest successful login response, and a    *)
(* failed async_login returns no client.                                   *)
(***************************************************************************)
IsLoginGrant(e) ==
    e.ev = "resp" /\ e.ep = LoginEndpoint /\ e.kind = "ok" /\ "token" \in DOMAIN e.body
IsTokenWrite(e) == e.ev \in {"clear", "store"}
Greatest(S) == CHOOSE i \in S : \A j \in S : j <= i

C17_TokenLifecycle ==
    /\ phase = "new" => token = None
    /\ \A t \in Tasks :
        LET tr == trace[t]
            grants == Positions(tr, IsLoginGrant)
            writes == Positions(tr, IsTokenWrite)
        IN  /\ \A j \in Positions(tr, IsStore) :
                  /\ j > 3
                  /\ IsLoginGrant(tr[j - 3])
                  /\ j - 3 = Greatest(grants \cap 1..j)
                  /\ tr[j].tok = tr[j - 3].body.token
            /\ (writes # {} /\ tr[Greatest(writes)].ev = "store")
                  => token = tr[Greatest(grants)].body.token
            /\ (writes # {} /\ tr[Greatest(writes)].ev = "clear") => token = None
            /\ (Idle(t) /\ op[t].fn = "async_login" /\ result[t].kind = "return")
                  => /\ result[t].val = ClientVal
                     /\ phase = "ready"
                     /\ grants # {}
                     /\ token = tr[Greatest(grants)].body.token
            /\ (Idle(t) /\ op[t].fn = "async_login" /\ result[t].kind = "raise")
                  => /\ phase = "new"
                     /\ token = None

\* A client was returned by async_login, and a later call re-authenticated
\* and now holds another token than the one its first attempt carried.
C17_Witness ==
    \E t \in Tasks :
        LET tr == trace[t]
        IN  /\ phase = "ready"
            /\ Idle(t)
            /\ Count(tr, IsStore) > 0
            /\ Count(tr, IsAttempt) > 0
            /\ tr[Least(Positions(tr, IsAttempt))].tok # None
            /\ token # tr[Least(Positions(tr, IsAttempt))].tok
            /\ token # None


(***************************************************************************)
(* C18: retries are sequential.  At no time are two HTTP calls of a call   *)
(* chain in flight, and an attempt that is a retry is issued only after    *)
(* the previous attempt got its boundary response, the counter was         *)
(* incremented, the re-authentication (its login call, when one is made)   *)
(* completed and stored its token, and the delay was slept through, in     *)
(* that order.                                                             *)
(***************************************************************************)
IsResp(e) == e.ev = "resp"
EvNames(tr, a, b) == [i \in 1..(b - a + 1) |-> tr[a + i - 1].ev]
ReauthEvents == <<"clear", "issue", "resp", "log", "ret", "store">>

C18_RetriesSequential ==
    \A t \in Tasks :
        LET tr == trace[t]
        IN  /\ \A i \in 1..Len(tr) :
                  CountUpTo(tr, i, IsIssue) - CountUpTo(tr, i, IsResp) \in {0, 1}
            /\ \A k \in Positions(tr, IsAttempt) :
                  tr[k].retry > 0 =>
                      LET before == Positions(tr, IsAttemptBoundary) \cap 1..k
                          b == Greatest(before)
                      IN  /\ before # {}
                          /\ \A a \in Positions(tr, IsAttempt) \cap 1..(k - 1) : a < b
                          /\ tr[b + 1].ev = "retry"
                          /\ tr[b + 1].retry = tr[k].retry
                          /\ EvNames(tr, b + 2, k - 3) \in {<<>>, ReauthEvents}
                          /\ EvNames(tr, b + 2, k - 3) = ReauthEvents
                                => /\ IsLoginCall(tr[b + 3])
                                   /\ IsLoginGrant(tr[b + 4])
                          /\ EvNames(tr, k - 2, k - 1) = <<"sleep", "wake">>

\* A call with credentials was resubmitted twice, each time after a
\* re-authentication and the delay, and is over.
C18_Witness ==
    \E t \in Tasks :
        /\ Idle(t)
        /\ result[t].kind = "return"
        /\ Count(trace[t], IsAttemptBoundary) >= 2
        /\ Count(trace[t], IsStore) >= 2
        /\ Count(trace[t], IsAttempt) >= 3


(***************************************************************************)
(* C19 as stated: a call that went to the network and failed ends with an  *)
(* error of the library's taxonomy, never with a transport error or any    *)
(* other exception.                                                        *)
(***************************************************************************)
C19_Original ==
    \A t \in Tasks :
        (/\ Idle(t)
         /\ result[t].kind = "raise"
         /\ result[t].val.type # "CancelledError"
         /\ Count(trace[t], IsIssue) > 0)
            => result[t].val.type \in WattTimeErrors


(***************************************************************************)
(* C20: a cancellation at an await of the call (the HTTP call of an        *)
(* attempt, the HTTP call of a re-authentication, the retry delay) ends    *)
(* the call there: the call is over with CancelledError, nothing follows   *)
(* the cancellation in its trace (no attempt, no login call), an HTTP call *)
(* in flight is never answered, and the Session holds the token it held    *)
(* when the cancellation came, which is the one the latest                 *)
(* re-authentication stored if no later one cleared it.                    *)
(***************************************************************************)
C20_CancelEndsCall ==
    \A t \in Tasks :
        LET tr == trace[t]
            writes == Positions(tr, IsTokenWrite)
        IN  \A i \in Positions(tr, IsCancel) :
              /\ i = Len(tr)
              /\ Raised(t, "CancelledError")
              /\ Count(tr, IsIssue) - Count(tr, IsResp)
                    = (IF tr[i].kind = "http" THEN 1 ELSE 0)
              /\ token = tr[i].tok
              /\ (writes # {} /\ tr[Greatest(writes)].ev = "store")
                    => token = tr[Greatest(writes)].tok

\* The call was cancelled during the retry delay, after its
\* re-authentication had stored a token, and that token is held.
C20_Witness ==
    \E t \in Tasks :
        LET tr == trace[t]
        IN  /\ Len(tr) > 2
            /\ IsCancel(tr[Len(tr)])
            /\ tr[Len(tr)].kind = "sleep"
            /\ tr[Len(tr) - 1].ev = "sleep"
            /\ tr[Len(tr) - 2].ev = "store"
            /\ token = tr[Len(tr) - 2].tok
            /\ token # None

\* The call was cancelled while the login call of a re-authentication was
\* in flight.
C20_WitnessReauth ==
    \E t \in Tasks :
        LET tr == trace[t]
        IN  /\ Len(tr) > 1
            /\ IsCancel(tr[Len(tr)])
            /\ tr[Len(tr)].kind = "http"
            /\ IsLoginCall(tr[Len(tr) - 1])
            /\ Count(tr, IsAttemptBoundary) > 0


(***************************************************************************)
(* C21: when the login call of a re-authentication (one that a boundary    *)
(* signal on a non-login request started) is answered with a boundary      *)
(* signal or with a parsed failure, the call ends there: the response is   *)
(* the last event, the call is over with InvalidCredentialsError for the   *)
(* boundary signal and with the error the classification of the failure    *)
(* body raises otherwise, and no further attempt is issued even when       *)
(* retries remain.                                                         *)
(***************************************************************************)
IsLoginRefusal(e) ==
    e.ev = "resp" /\ e.ep = LoginEndpoint /\ e.kind \in {"boundary", "fail"}

C21_ReauthFailureEndsCall ==
    \A t \in Tasks :
        LET tr == trace[t]
        IN  \A i \in Positions(tr, IsLoginRefusal) :
              CountUpTo(tr, i, IsAttemptBoundary) > 0 =>
                  /\ i = Len(tr)
                  /\ Idle(t)
                  /\ result[t].kind = "raise"
                  /\ tr[i].kind = "boundary" => result[t].val = InvalidCredentials
                  /\ tr[i].kind = "fail"
                        => result[t].val = raise_error(LoginEndpoint, tr[i].body,
                                                       "ClientResponseError")
                  /\ Count(tr, IsAttempt) = Count(tr, IsAttemptBoundary)
                  /\ Count(tr, IsAttempt) <= request_retries

\* The first re-authentication of a call with three retries configured was
\* refused with a boundary signal: one attempt was issued, two were left.
C21_Witness ==
    \E t \in Tasks :
        LET tr == trace[t]
        IN  /\ request_retries = 3
            /\ Len(tr) > 0
            /\ IsLoginRefusal(tr[Len(tr)])
            /\ tr[Len(tr)].kind = "boundary"
            /\ Count(tr, IsAttempt) = 1
            /\ Raised(t, "InvalidCredentialsError")


(***************************************************************************)
(* C22 as stated: every attempt that was answered with a parsed body, be   *)
(* its status a success or a failure, is reported to the logger with the   *)
(* endpoint and that body by the time the call is over.                    *)
(***************************************************************************)
C22_Original ==
    \A t \in Tasks :
        LET tr == trace[t]
        IN  (Idle(t) /\ Count(tr, IsCancel) = 0) =>
                \A i \in Positions(tr, IsResp) :
                    tr[i].kind \in {"ok", "fail"} =>
                        \E j \in (i + 1)..Len(tr) :
                            /\ tr[j].ev = "log"
                            /\ tr[j].ep = tr[i].ep
                            /\ tr[j].body = tr[i].body


(***************************************************************************)
(* C23 as stated: every error of the package's taxonomy that ends a call   *)
(* carries the endpoint path and the message, and the endpoint is the one  *)
(* the caller requested (the endpoint of the first HTTP call of the call). *)
(***************************************************************************)
C23_Original ==
    \A t \in Tasks :
        LET tr == trace[t]
        IN  (/\ Idle(t)
             /\ result[t].kind = "raise"
             /\ result[t].val.type \in WattTimeErrors
             /\ Count(tr, IsIssue) > 0)
                => /\ Len(result[t].val.text) >= 2
                   /\ result[t].val.text[1] = "Error while requesting /"
                   /\ result[t].val.text[2] = tr[Least(Positions(tr, IsIssue))].ep


(***************************************************************************)
(* C24: with calls overlapping on one client, token replacement is         *)
(* last-writer-wins.  Once the calls of both tasks are over, each having   *)
(* re-authenticated and none of their login calls having failed, the       *)
(* Session token is the token of the store that happened last, which is    *)
(* the token field of the login response that store followed.  An attempt  *)
(* goes out without a bearer header only when the token was absent at that *)
(* moment, which on a logged-in client is while a re-authentication of the *)
(* other call has cleared it.                                              *)
(***************************************************************************)
Reauthenticated(t) ==
    /\ Idle(t)
    /\ Count(trace[t], IsStore) > 0
    /\ Count(trace[t], IsCancel) = 0
    /\ LoginsSucceeded(trace[t])

LastStoreOf(t) == trace[t][Greatest(Positions(trace[t], IsStore))]

C24_LastWriterWins ==
    /\ (\A t \in Tasks : Reauthenticated(t))
          => /\ lastStore.task \in Tasks
             /\ token = lastStore.tok
             /\ token = LastStoreOf(lastStore.task).tok
             /\ LET j == Greatest(Positions(trace[lastStore.task], IsStore))
                IN  /\ IsLoginGrant(trace[lastStore.task][j - 3])
                    /\ token = trace[lastStore.task][j - 3].body.token
    /\ \A t \in Tasks :
          \A i \in Positions(trace[t], IsAttempt) :
              trace[t][i].bearer = None => trace[t][i].tok = None

\* Two overlapping calls both re-authenticated and got different tokens, the
\* Session holds the one stored last, and the first attempt of one of them
\* went out without a bearer header while the other had the token cleared.
C24_Witness ==
    /\ \A t \in Tasks :
          /\ Reauthenticated(t)
          /\ op[t].fn = "async_get_realtime_emissions"
          /\ result[t].kind = "return"
    /\ LastStoreOf(1).tok # LastStoreOf(2).tok
    /\ token = lastStore.tok
    /\ \E t \in Tasks :
          /\ IsAttempt(trace[t][1])
          /\ trace[t][1].bearer = None


(***************************************************************************)
(* C25: whatever the interleaving of overlapping calls, no login call is   *)
(* issued with a bearer header.  The clear of async_authenticate and the   *)
(* token test before the login HTTP call run without a suspension between  *)
(* them: in the trace of its call a login call directly follows the clear, *)
(* and the token is absent when it is issued.                              *)
(***************************************************************************)
C25_LoginNeverBearer ==
    \A t \in Tasks :
        \A i \in Positions(trace[t], IsLoginCall) :
            /\ trace[t][i].bearer = None
            /\ trace[t][i].tok = None
            /\ trace[t][i].basic
            /\ i > 1
            /\ trace[t][i - 1].ev = "clear"

\* Two calls overlap; one has re-authenticated and stored a token, and the
\* other, whose last attempt carried that token, is now in its own
\* re-authentication with the login call in flight.
C25_Witness ==
    \E t, u \in Tasks :
        LET tr == trace[t]
            n == Len(tr)
        IN  /\ t # u
            /\ ~Idle(t) /\ ~Idle(u)
            /\ Count(trace[u], IsStore) > 0
            /\ n > 4
            /\ IsLoginCall(tr[n])
            /\ IsAttempt(tr[n - 4])
            /\ tr[n - 4].bearer = LastStoreOf(u).tok
            /\ trace[u][1].bearer # LastStoreOf(u).tok


C27_RegisterNeverLogsIn ==
    \A t \in Tasks :
        LET tr == trace[t]
        IN  op[t].fn = "async_register_new_username" =>
              /\ Count(tr, IsLoginCall) = 0
              /\ Count(tr, IsTokenWrite) = 0
              /\ token = None
              /\ \A i \in Positions(tr, IsIssue) :
                    /\ tr[i].ep = "register"
                    /\ tr[i].tok = None
                    /\ tr[i].bearer = None
                    /\ tr[i].retry > 0
                          => /\ i > 4
                             /\ EvNames(tr, i - 4, i - 1) = <<"resp", "retry", "sleep", "wake">>
                             /\ IsBoundary(tr[i - 4])
              /\ Count(tr, IsIssue) > 0 => Count(tr, IsIssue) <= request_retries
              /\ (/\ Idle(t)
                  /\ Count(tr, IsIssue) >= 1
                  /\ Count(tr, IsCancel) = 0
                  /\ OnlyBoundaries(tr))
                 => /\ Count(tr, IsIssue) = request_retries
                    /\ Raised(t, "InvalidCredentialsError")

\* The register request got three boundary signals with three retries
\* configured, and the call is over.
C27_Witness ==
    \E t \in Tasks :
        /\ op[t].fn = "async_register_new_username"
        /\ request_retries = 3
        /\ Count(trace[t], IsAttemptBoundary) = 3
        /\ Count(trace[t], IsLoginCall) = 0
        /\ Raised(t, "InvalidCredentialsError")


(***************************************************************************)
(* C28: a re-authentication whose login call ends in an error leaves the   *)
(* token absent; the token it cleared is not put back.  A call that ended  *)
(* in such a failed re-authentication leaves no token in the Session, and  *)
(* the first attempt of a request that starts with no token carries no     *)
(* bearer header.                                                          *)
(***************************************************************************)
ReauthFailed(t) ==
    LET tr == trace[t]
        writes == Positions(tr, IsTokenWrite)
    IN  /\ Idle(t)
        /\ result[t].kind = "raise"
        /\ Count(tr, IsAttemptBoundary) > 0
        /\ writes # {}
        /\ tr[Greatest(writes)].ev = "clear"

C28_FailedReauthLeavesNoToken ==
    \A t \in Tasks :
        /\ ReauthFailed(t) => token = None
        /\ \A i \in Positions(trace[t], IsAttempt) :
              (trace[t][i].retry = 0 /\ trace[t][i].tok = None)
                  => trace[t][i].bearer = None

\* On a client that async_login returned, a request starts with no token
\* held (an earlier re-authentication failed) and goes out with no bearer
\* header.
C28_Witness ==
    \E t \in Tasks :
        /\ phase = "ready"
        /\ Len(trace[t]) > 0
        /\ IsAttempt(trace[t][1])
        /\ trace[t][1].tok = None
        /\ trace[t][1].bearer = None

\* A call has just ended in a failed re-authentication.
C28_WitnessFailed == \E t \in Tasks : ReauthFailed(t) /\ phase = "ready"


(***************************************************************************)
(* C29: re-authentication never nests.  At any suspension point the call   *)
(* holds at most two frames of _async_request, the inner one being the     *)
(* login call of the one async_authenticate in progress and the outer one  *)
(* a non-login request; a call issues at most N attempts and N login calls *)
(* (one login call and nothing else for async_login), hence at most 2N     *)
(* HTTP calls.                                                             *)
(***************************************************************************)
FramesOf(t, fn) == {k \in 1..Len(stack[t]) : stack[t][k].fn = fn}

C29_ReauthNeverNests ==
    \A t \in Tasks :
        LET tr == trace[t]
            reqs == FramesOf(t, "_async_request")
            N == IF request_retries > 0 THEN request_retries ELSE 0
        IN  /\ Cardinality(reqs) <= 2
            /\ Cardinality(FramesOf(t, "async_authenticate")) <= 1
            /\ Cardinality(reqs) = 2
                  => /\ stack[t][Greatest(reqs)].endpoint = LoginEndpoint
                     /\ stack[t][Least(reqs)].endpoint # LoginEndpoint
                     /\ Greatest(reqs) = Len(stack[t])
            /\ Count(tr, IsAttempt) <= N
            /\ Count(tr, IsLoginCall) <= N
            /\ Count(tr, IsIssue) <= 2 * N
            /\ op[t].fn = "async_login" => Count(tr, IsIssue) <= 1

\* With three retries configured a call issued six HTTP calls, three
\* attempts and three login calls, and is over.
C29_Witness ==
    \E t \in Tasks :
        /\ request_retries = 3
        /\ Count(trace[t], IsAttempt) = 3
        /\ Count(trace[t], IsLoginCall) = 3
        /\ Count(trace[t], IsIssue) = 6
        /\ Idle(t)


(***************************************************************************)
(* C30: the token changes only inside async_authenticate.  A step changes  *)
(* the token only if it runs line 218 or line 231 (it adds a clear or a    *)
(* store to the trace of the acting call); so a call that succeeds on its  *)
(* first attempt, or fails with a classified failure or before any HTTP    *)
(* call on its parameters, leaves the token as it was.  The stored         *)
(* credentials change only when async_login or                             *)
(* async_register_new_username builds its client, and the retry            *)
(* configuration never changes.                                            *)
(***************************************************************************)
StartsCall(t) ==
    /\ calls' # calls
    /\ stack[t] = <<>>
    /\ <<stack[t], trace[t], result[t], op[t]>>' # <<stack[t], trace[t], result[t], op[t]>>

NewEvents(t) ==
    IF StartsCall(t)
    THEN trace'[t]
    ELSE SubSeq(trace'[t], Len(trace[t]) + 1, Len(trace'[t]))

TokenFrame ==
    /\ token' # token
          => \E t \in Tasks : \E k \in 1..Len(NewEvents(t)) : IsTokenWrite(NewEvents(t)[k])
    /\ creds' # creds
          => \E t \in Tasks :
                /\ calls' # calls
                /\ op'[t].fn \in {"async_login", "async_register_new_username"}
    /\ request_retries' = request_retries

C30_TokenChangesOnlyInAuthenticate == [][TokenFrame]_vars

\* On a client that async_login returned, a request succeeded on its first
\* attempt and the token is the one that attempt carried.
C30_Witness ==
    \E t \in Tasks :
        /\ phase = "ready"
        /\ Idle(t)
        /\ result[t].kind = "return"
        /\ Len(trace[t]) = 4
        /\ IsAttempt(trace[t][1])
        /\ trace[t][1].bearer \in Tokens
        /\ token = trace[t][1].bearer

====
